---- MODULE Spec2Model ----
(***************************************************************************)
(* Character chat system (src/main.py): the persona store (Character),     *)
(* the turn store (Conversation), the conversation engine                  *)
(* chat_with_character, the readers get_chat_history and                   *)
(* get_chat_messages, and auto_select_character, as a state machine.       *)
(* Calls are made one at a time (call), or step by step in threads         *)
(* (threads) where the interleaving of their steps matters.                *)
(*                                                                         *)
(* Python values are modelled as follows.  Strings are TLA+ strings, built *)
(* with \o as the f-strings build them.  None is the string NoneValue,     *)
(* which no caller passes as a session id.  A query result is a sequence   *)
(* of rows; .first() is its head, or nothing when it is empty.  uuid4() is *)
(* modelled as fresh: the n-th call yields Uuid4(n), and no caller chooses *)
(* a uuid that was not handed out before.  datetime.utcnow need not differ *)
(* between two inserts, so a new row's timestamp is that of the previous   *)
(* insert or later; rows with equal timestamps come back from ORDER BY     *)
(* timestamp in either order.  In threads a row takes its timestamp before *)
(* it is committed, so rows need not be stored in timestamp order.         *)
(***************************************************************************)
EXTENDS Integers, Sequences, FiniteSets, TLC

VARIABLES
    characters,     \* table character, in id order
    conversations,  \* table conversation, in id order
    minted,         \* number of uuid4() calls made so far
    clock,          \* datetime.utcnow at the latest insert
    issued,         \* history: chat ids returned to calls made alone that passed none
    saved,          \* history: chat id -> number of calls made alone that saved a turn under it
    call,           \* the latest call made alone: arguments, steps, result
    threads         \* the calls that run step by step beside others, by thread

vars == <<characters, conversations, minted, clock, issued, saved, call, threads>>

-----------------------------------------------------------------------------
(* Bounds of the model *)

\* turns in the conversation table
MaxTurns == 2
\* uuid4() calls
MaxMinted == 2
\* turns in the conversation table when they are a single session
MaxLongTurns == 15
\* turns in the conversation table, stored or under way, when exchanges run
\* in threads
MaxRaceTurns == 3

(* src/main.py:144, .limit(10) *)
RecentLimit == 10

(* src/main.py:168, response.status_code == 200 *)
HttpOk == 200

-----------------------------------------------------------------------------
(* Python values *)

NoneValue == "<None>"

\* Python truthiness of an optional string: None and "" are falsy
Truthy(s) == s # NoneValue /\ s # ""

\* faulty variant of Uuid4: every call yields the same identifier
Uuid4Reused(n) == "uuid-" \o ToString(1)

\* str(uuid.uuid4()) of the n-th call
Uuid4(n) == "uuid-" \o ToString(n)

RECURSIVE Join(_, _)
\* sep.join(parts)
Join(sep, parts) ==
    IF parts = <<>> THEN ""
    ELSE IF Len(parts) = 1 THEN parts[1]
    ELSE parts[1] \o sep \o Join(sep, Tail(parts))

Range(seq) == {seq[i] : i \in 1..Len(seq)}

-----------------------------------------------------------------------------
(* Persona store *)

PredefinedCharacters == <<
    [name |-> "Chuck the Clown",
     description |-> "A funny clown who tells jokes and entertains.",
     prompt_template |-> "You are Chuck the Clown, always ready with a joke and entertainment. Be upbeat, silly, and include jokes in your responses."],
    [name |-> "Sarcastic Pirate",
     description |-> "A pirate with a sharp tongue and a love for treasure.",
     prompt_template |-> "You are a Sarcastic Pirate, ready to share your tales of adventure. Use pirate slang, be witty, sarcastic, and mention your love for treasure and the sea."],
    [name |-> "Professor Sage",
     description |-> "A wise professor knowledgeable about many subjects.",
     prompt_template |-> "You are Professor Sage, sharing wisdom and knowledge. Be scholarly, thoughtful, and provide educational information in your responses."] >>

\* Character(name=..., description=..., prompt_template=...) inserted into rows
NewCharacter(rows, name, description, prompt_template) ==
    [id |-> Len(rows) + 1, name |-> name, description |-> description,
     prompt_template |-> prompt_template]

\* Character.query.filter_by(name=name), evaluated on rows
CharacterByName(rows, name) == SelectSeq(rows, LAMBDA c : c.name = name)

RECURSIVE SeedFrom(_, _)
\* the loop of add_predefined_characters over characters[i..]
SeedFrom(rows, i) ==
    IF i > Len(PredefinedCharacters) THEN rows
    ELSE LET d == PredefinedCharacters[i]
         IN IF CharacterByName(rows, d.name) = <<>>
            THEN SeedFrom(Append(rows, NewCharacter(rows, d.name, d.description,
                                                    d.prompt_template)), i + 1)
            ELSE SeedFrom(rows, i + 1)

-----------------------------------------------------------------------------
(* Turn store *)

\* faulty variant of NewConversation: the chat_id is not stored
NewConversationNoChat(character, user_input, bot_response, chat_id, user_id, now) ==
    [id |-> Len(conversations) + 1, character_id |-> character.id,
     user_input |-> user_input, bot_response |-> bot_response,
     timestamp |-> now, chat_id |-> NoneValue, user_id |-> user_id]

\* Conversation(...) as inserted: id by autoincrement, timestamp by default
NewConversation(character, user_input, bot_response, chat_id, user_id, now) ==
    [id |-> Len(conversations) + 1, character_id |-> character.id,
     user_input |-> user_input, bot_response |-> bot_response,
     timestamp |-> now, chat_id |-> chat_id, user_id |-> user_id]

\* faulty variant of Removed: the teardown commits what the session holds
RemovedCommitting(rows, pending) == rows \o pending

\* the exit of `with app_context()` after a commit that raised: the teardown
\* removes the session, and the rows it held are written nowhere
Removed(rows, pending) == rows

RECURSIVE Ascending(_)
\* the orders in which ORDER BY timestamp may return the rows of a set
Ascending(rows) ==
    IF rows = {} THEN {<<>>}
    ELSE UNION {{<<r>> \o rest : rest \in Ascending(rows \ {r})} :
                r \in {r \in rows : \A q \in rows : r.timestamp <= q.timestamp}}

RECURSIVE Descending(_)
\* the orders in which ORDER BY timestamp DESC may return the rows of a set
Descending(rows) ==
    IF rows = {} THEN {<<>>}
    ELSE UNION {{<<r>> \o rest : rest \in Descending(rows \ {r})} :
                r \in {r \in rows : \A q \in rows : r.timestamp >= q.timestamp}}

Reverse(seq) == [i \in 1..Len(seq) |-> seq[Len(seq) + 1 - i]]

\* .limit(n)
Limit(seq, n) == IF Len(seq) <= n THEN seq ELSE SubSeq(seq, 1, n)

\* faulty variant of SessionTurns: the query carries the other query's .limit(10)
SessionTurnsCapped(user_id, chat_id) ==
    {Limit(s, RecentLimit) : s \in Ascending({r \in Range(conversations) :
                                               r.user_id = user_id /\ r.chat_id = chat_id})}

\* Conversation.query.filter_by(user_id, chat_id).order_by(timestamp).all()
SessionTurns(user_id, chat_id) ==
    Ascending({r \in Range(conversations) :
               r.user_id = user_id /\ r.chat_id = chat_id})

\* Conversation.query.filter_by(user_id, character_id)
\*     .order_by(timestamp.desc()).limit(10).all(), then .reverse()
RecentTurns(user_id, character_id) ==
    {Reverse(Limit(s, RecentLimit)) :
     s \in Descending({r \in Range(conversations) :
                       r.user_id = user_id /\ r.character_id = character_id})}

-----------------------------------------------------------------------------
(* Model gateway: what requests.post can give back *)

\* one element of 'candidates' carrying a text
Candidate(text) == [content |-> [parts |-> <<[text |-> text]>>]]

\* a response: json is <<the parsed body>>, or <<>> when response.json() raises
Response(status_code, text, json) ==
    [status_code |-> status_code, text |-> text, json |-> json]

Answer == Response(200, "{candidates}", <<[candidates |-> <<Candidate("Why did the clown cross the road?"), Candidate("second candidate")>>]>>)
NoCandidatesKey == Response(200, "{promptFeedback}", <<[promptFeedback |-> "blocked"]>>)
EmptyCandidates == Response(200, "{candidates: []}", <<[candidates |-> <<>>]>>)
NoContent == Response(200, "{finishReason}", <<[candidates |-> <<[finishReason |-> "SAFETY"]>>]>>)
NoParts == Response(200, "{content: {role}}", <<[candidates |-> <<[content |-> [role |-> "model"]]>>]>>)
EmptyParts == Response(200, "{parts: []}", <<[candidates |-> <<[content |-> [parts |-> <<>>]]>>]>>)
NoText == Response(200, "{inlineData}", <<[candidates |-> <<[content |-> [parts |-> <<[inlineData |-> "png"]>>]]>>]>>)
NotJson200 == Response(200, "<html>", <<>>)
ServerError == Response(500, "Internal Server Error", <<[error |-> "internal"]>>)
Unavailable == Response(503, "<html>Service Unavailable</html>", <<>>)
AcceptedAnswer == Response(202, "{candidates}", <<[candidates |-> <<Candidate("late answer")>>]>>)

MalformedResponses == {NoCandidatesKey, EmptyCandidates, NoContent, NoParts, EmptyParts, NoText}
ErrorResponses == {ServerError, Unavailable, AcceptedAnswer}
Responses == {Answer, NotJson200} \cup MalformedResponses \cup ErrorResponses

\* 'candidates' in response_data and len(response_data['candidates']) > 0
HasCandidates(data) ==
    "candidates" \in DOMAIN data /\ Len(data.candidates) > 0

\* faulty variant of FirstText: missing keys read as an empty text (.get)
FirstTextLenient(data) ==
    LET c == data.candidates[1]
    IN IF "content" \notin DOMAIN c THEN <<"ok", "">>
       ELSE IF "parts" \notin DOMAIN c.content THEN <<"ok", "">>
       ELSE IF Len(c.content.parts) = 0 THEN <<"ok", "">>
       ELSE IF "text" \notin DOMAIN c.content.parts[1] THEN <<"ok", "">>
       ELSE <<"ok", c.content.parts[1].text>>

\* faulty variant of FirstText: the last candidate is read, not the first
FirstTextOfLast(data) ==
    LET c == data.candidates[Len(data.candidates)]
    IN IF "content" \notin DOMAIN c THEN <<"raise", "'content'">>
       ELSE IF "parts" \notin DOMAIN c.content THEN <<"raise", "'parts'">>
       ELSE IF Len(c.content.parts) = 0 THEN <<"raise", "list index out of range">>
       ELSE IF "text" \notin DOMAIN c.content.parts[1] THEN <<"raise", "'text'">>
       ELSE <<"ok", c.content.parts[1].text>>

\* response_data['candidates'][0]['content']['parts'][0]['text']:
\* <<"ok", text>>, or <<"raise", str(e)>> for the KeyError or IndexError
FirstText(data) ==
    LET c == data.candidates[1]
    IN IF "content" \notin DOMAIN c THEN <<"raise", "'content'">>
       ELSE IF "parts" \notin DOMAIN c.content THEN <<"raise", "'parts'">>
       ELSE IF Len(c.content.parts) = 0 THEN <<"raise", "list index out of range">>
       ELSE IF "text" \notin DOMAIN c.content.parts[1] THEN <<"raise", "'text'">>
       ELSE <<"ok", c.content.parts[1].text>>

-----------------------------------------------------------------------------
(* Conversation engine: chat_with_character *)

\* str(e) of the exceptions the steps can raise
DatabaseError == "(sqlite3.OperationalError) database is locked"
ConnectionError == "HTTPSConnectionPool: Max retries exceeded"
JSONDecodeError == "Expecting value: line 1 column 1 (char 0)"

\* the steps at which the environment can make a call raise
Faults == {"none", "lookup", "history", "post", "commit"}

\* how a call leaves the function: a returned pair, or an exception that escapes
Returned(response, chat_id) == [raised |-> FALSE, result |-> <<response, chat_id>>]
Escaped == [raised |-> TRUE, result |-> <<NoneValue, NoneValue>>]

\* return "Character not found.", None
NotFound(chat_id) == Returned("Character not found.", NoneValue)

\* return bot_response, chat_id
Saved(bot_response, chat_id) == Returned(bot_response, chat_id)

\* return "...Unexpected response format.", chat_id
UnexpectedFormat(chat_id) ==
    Returned("An error occurred while generating content: Unexpected response format.",
             chat_id)

\* faulty variant of StatusError: None is returned for the chat id
StatusErrorDropsChat(response, chat_id) ==
    Returned("An error occurred while generating content: "
                 \o ToString(response.status_code) \o " - " \o response.text,
             NoneValue)

\* return f"...{response.status_code} - {response.text}", chat_id
StatusError(response, chat_id) ==
    Returned("An error occurred while generating content: "
                 \o ToString(response.status_code) \o " - " \o response.text,
             chat_id)

\* faulty variant of Unexpected: the handler catches database errors only
UnexpectedOnlyDatabase(e, chat_id) ==
    IF e = DatabaseError
    THEN Returned("An unexpected error occurred: " \o e, chat_id)
    ELSE Escaped

\* except Exception as e: return f"An unexpected error occurred: {str(e)}", chat_id
Unexpected(e, chat_id) == Returned("An unexpected error occurred: " \o e, chat_id)

\* faulty variant of FindCharacter: the query has no filter on the name
FindCharacterUnfiltered(character_name) ==
    IF characters = <<>> THEN <<>> ELSE <<Head(characters)>>

\* character = Character.query.filter_by(name=character_name).first():
\* <<character>>, or <<>> for None
FindCharacter(character_name) ==
    LET rows == CharacterByName(characters, character_name)
    IN IF rows = <<>> THEN <<>> ELSE <<Head(rows)>>

\* " ".join([f"User: {conv.user_input}\nBot: {conv.bot_response}" for conv in ...])
ContextPrompt(previous_conversations) ==
    Join(" ", [i \in 1..Len(previous_conversations) |->
                   "User: " \o previous_conversations[i].user_input
                       \o "\nBot: " \o previous_conversations[i].bot_response])

\* f"{prompt_template}\n{context_prompt}\nUser: {user_input}\nBot:"
FullPrompt(prompt_template, context_prompt, user_input) ==
    prompt_template \o "\n" \o context_prompt \o "\nUser: " \o user_input \o "\nBot:"

\* if not chat_id: chat_id = str(uuid.uuid4())
ChatIdInEffect(chat_id) == IF ~Truthy(chat_id) THEN Uuid4(minted + 1) ELSE chat_id

\* if chat_id: the session's turns; else: the recent turns with the character
PreviousConversations(character, user_id, chat_id) ==
    IF Truthy(chat_id) THEN SessionTurns(user_id, chat_id)
    ELSE RecentTurns(user_id, character.id)

NoResponse == Response(0, "", <<>>)

\* the record of a call that has just been entered
Entered(character_name, user_input, user_id, chat_id) ==
    [op |-> "chat_with_character", character_name |-> character_name,
     user_input |-> user_input, user_id |-> user_id, chat_id |-> chat_id,
     fault |-> "none", posted |-> FALSE, response |-> NoResponse,
     previous_conversations |-> <<>>, full_prompt |-> "", outcome |-> "",
     raised |-> FALSE, result |-> <<NoneValue, NoneValue>>,
     before |-> conversations, earlier |-> issued]

\* the call ends: c is its record, how is Returned(..) or Escaped
Leave(c, outcome, how, rows, uuids, now) ==
    /\ call' = [c EXCEPT !.outcome = outcome, !.raised = how.raised,
                         !.result = how.result]
    /\ conversations' = rows
    /\ minted' = uuids
    /\ clock' = now
    /\ issued' = IF ~Truthy(c.chat_id) /\ ~how.raised /\ Truthy(how.result[2])
                 THEN issued \cup {how.result[2]} ELSE issued
    /\ saved' = IF outcome # "saved" THEN saved
                ELSE IF how.result[2] \in DOMAIN saved
                     THEN [saved EXCEPT ![how.result[2]] = @ + 1]
                     ELSE saved @@ (how.result[2] :> 1)
    /\ UNCHANGED <<characters, threads>>

ChatWithCharacter(character_name, user_input, user_id, chat_id, response, fault, tick) ==
    LET entered == Entered(character_name, user_input, user_id, chat_id)
        found == FindCharacter(character_name)
    IN
    IF fault = "lookup"
    THEN Leave([entered EXCEPT !.fault = fault], "unexpected",
               Unexpected(DatabaseError, chat_id), conversations, minted, clock)
    ELSE IF found = <<>>
    THEN Leave(entered, "not_found", NotFound(chat_id), conversations, minted, clock)
    ELSE
    LET character == Head(found)
        chat == ChatIdInEffect(chat_id)
        uuids == IF ~Truthy(chat_id) THEN minted + 1 ELSE minted
    IN
    /\ uuids <= MaxMinted
    /\ IF fault = "history"
       THEN Leave([entered EXCEPT !.fault = fault], "unexpected",
                  Unexpected(DatabaseError, chat), conversations, uuids, clock)
       ELSE
       \E previous_conversations \in PreviousConversations(character, user_id, chat) :
       LET full_prompt == FullPrompt(character.prompt_template,
                                     ContextPrompt(previous_conversations), user_input)
           prompted == [entered EXCEPT
                            !.previous_conversations = previous_conversations,
                            !.full_prompt = full_prompt, !.posted = TRUE]
           answered == [prompted EXCEPT !.response = response]
       IN
       IF fault = "post"
       THEN Leave([prompted EXCEPT !.fault = fault], "unexpected",
                  Unexpected(ConnectionError, chat), conversations, uuids, clock)
       ELSE IF response.status_code = HttpOk
       THEN IF response.json = <<>>
            THEN Leave(answered, "unexpected", Unexpected(JSONDecodeError, chat),
                       conversations, uuids, clock)
            ELSE IF HasCandidates(response.json[1])
            THEN LET text == FirstText(response.json[1])
                 IN IF text[1] = "raise"
                    THEN Leave(answered, "unexpected", Unexpected(text[2], chat),
                               conversations, uuids, clock)
                    ELSE IF fault = "commit"
                    THEN Leave([answered EXCEPT !.fault = fault], "unexpected",
                               Unexpected(DatabaseError, chat),
                               Removed(conversations,
                                       <<NewConversation(character, user_input, text[2],
                                                         chat, user_id, clock + tick)>>),
                               uuids, clock)
                    ELSE Leave(answered, "saved", Saved(text[2], chat),
                               Append(conversations,
                                      NewConversation(character, user_input, text[2],
                                                      chat, user_id, clock + tick)),
                               uuids, clock + tick)
            ELSE Leave(answered, "format_error", UnexpectedFormat(chat),
                       conversations, uuids, clock)
       ELSE IF response.json = <<>>
            THEN Leave(answered, "unexpected", Unexpected(JSONDecodeError, chat),
                       conversations, uuids, clock)
            ELSE Leave(answered, "status_error", StatusError(response, chat),
                       conversations, uuids, clock)

-----------------------------------------------------------------------------
(* Persona administration *)

\* the record of an add_character or add_predefined_characters call
Administered(op, name, fault, result) ==
    [op |-> op, character_name |-> name, fault |-> fault, result |-> result]

\* add_character(name, description, prompt_template); fault "commit" makes
\* db.session.commit() raise, which the handler answers with a rollback
AddCharacter(name, description, prompt_template, fault) ==
    /\ IF CharacterByName(characters, name) # <<>>
       THEN /\ call' = Administered("add_character", name, "none",
                                    "Character '" \o name \o "' already exists!")
            /\ UNCHANGED characters
       ELSE IF fault = "commit"
       THEN /\ call' = Administered("add_character", name, fault,
                                    "An error occurred while adding the character: "
                                        \o DatabaseError)
            /\ UNCHANGED characters
       ELSE /\ call' = Administered("add_character", name, "none",
                                    "Character '" \o name
                                        \o "' added successfully!\nDescription: "
                                        \o description)
            /\ characters' = Append(characters,
                                    NewCharacter(characters, name, description,
                                                 prompt_template))
    /\ UNCHANGED <<conversations, minted, clock, issued, saved, threads>>

\* add_predefined_characters(); fault "commit" makes the commit raise, and the
\* rollback drops every character the loop added
AddPredefinedCharacters(fault) ==
    /\ characters' = IF fault = "commit" THEN characters ELSE SeedFrom(characters, 1)
    /\ call' = Administered("add_predefined_characters", "", fault, "")
    /\ UNCHANGED <<conversations, minted, clock, issued, saved, threads>>

-----------------------------------------------------------------------------
(* Reading the turn store: get_chat_messages and get_chat_history *)

(* src/main.py:263, user_input[:30] and len(user_input) > 30 *)
PreviewLength == 30

\* the record of a get_chat_messages or get_chat_history call; a query that
\* raises leaves the function as an exception (neither has a handler);
\* previous is the call it was made right after, Idle when long after
Read(op, chat_id, user_id, fault, result) ==
    [op |-> op, chat_id |-> chat_id, user_id |-> user_id, fault |-> fault,
     raised |-> fault # "none", result |-> result, before |-> conversations,
     previous |-> call]

\* faulty variant of Messages: ordered by timestamp, newest first
MessagesNewestFirst(chat_id, user_id) ==
    Descending({r \in Range(conversations) :
                r.chat_id = chat_id /\ r.user_id = user_id})

\* Conversation.query.filter_by(chat_id, user_id).order_by(timestamp).all()
Messages(chat_id, user_id) ==
    Ascending({r \in Range(conversations) :
               r.chat_id = chat_id /\ r.user_id = user_id})

\* faulty variant of Pairs: the fields of a pair are exchanged
PairsExchanged(messages) ==
    [i \in 1..Len(messages) |-> <<messages[i].bot_response, messages[i].user_input>>]

\* [(msg.user_input, msg.bot_response) for msg in messages]
Pairs(messages) ==
    [i \in 1..Len(messages) |-> <<messages[i].user_input, messages[i].bot_response>>]

\* faulty variant of GetChatMessages: the messages read are deleted
GetChatMessagesConsuming(chat_id, user_id, fault) ==
    /\ \E messages \in Messages(chat_id, user_id) :
            call' = Read("get_chat_messages", chat_id, user_id, "none", Pairs(messages))
    /\ conversations' = SelectSeq(conversations,
                                  LAMBDA r : ~(r.chat_id = chat_id /\ r.user_id = user_id))
    /\ UNCHANGED <<characters, minted, clock, issued, saved, threads>>

\* get_chat_messages(chat_id, user_id)
GetChatMessages(chat_id, user_id, fault) ==
    /\ IF fault = "query"
       THEN call' = Read("get_chat_messages", chat_id, user_id, fault, <<>>)
       ELSE \E messages \in Messages(chat_id, user_id) :
                call' = Read("get_chat_messages", chat_id, user_id, "none",
                             Pairs(messages))
    /\ UNCHANGED <<characters, conversations, minted, clock, issued, saved, threads>>

\* faulty variant of Joined: the join carries no filter on user_id
JoinedAnyUser(user_id) ==
    {<<r, c>> \in Range(conversations) \X Range(characters) : r.character_id = c.id}

\* Conversation JOIN Character ON character_id = id, WHERE user_id = user_id
Joined(user_id) ==
    {<<r, c>> \in Range(conversations) \X Range(characters) :
        r.character_id = c.id /\ r.user_id = user_id}

\* min(Conversation.timestamp) of the group of chat_id
StartTime(joined, chat_id) ==
    CHOOSE t \in {j[1].timestamp : j \in {j \in joined : j[1].chat_id = chat_id}} :
        \A j \in joined : j[1].chat_id = chat_id => t <= j[1].timestamp

\* the rows a group can yield: Character.name is a bare column beside min(),
\* taken from a row of the group that holds the minimum
GroupRows(joined, chat_id) ==
    {<<chat_id, j[2].name, StartTime(joined, chat_id)>> :
        j \in {j \in joined : /\ j[1].chat_id = chat_id
                              /\ j[1].timestamp = StartTime(joined, chat_id)}}

RECURSIVE StartTimeAsc(_, _)
\* faulty variant of StartTimeDesc: ORDER BY start_time, oldest session first
StartTimeAsc(joined, chat_ids) ==
    IF chat_ids = {} THEN {<<>>}
    ELSE UNION {{<<row>> \o rest : row \in GroupRows(joined, g),
                                   rest \in StartTimeAsc(joined, chat_ids \ {g})} :
                g \in {g \in chat_ids : \A h \in chat_ids :
                           StartTime(joined, g) <= StartTime(joined, h)}}

RECURSIVE StartTimeDesc(_, _)
\* GROUP BY chat_id ORDER BY start_time DESC over the groups chat_ids
StartTimeDesc(joined, chat_ids) ==
    IF chat_ids = {} THEN {<<>>}
    ELSE UNION {{<<row>> \o rest : row \in GroupRows(joined, g),
                                   rest \in StartTimeDesc(joined, chat_ids \ {g})} :
                g \in {g \in chat_ids : \A h \in chat_ids :
                           StartTime(joined, g) >= StartTime(joined, h)}}

\* chat_sessions = db.session.query(chat_id, name, min(timestamp))...all()
ChatSessions(user_id) ==
    StartTimeDesc(Joined(user_id), {j[1].chat_id : j \in Joined(user_id)})

\* Conversation.query.filter_by(chat_id, user_id).order_by(timestamp).first():
\* the rows it can yield
FirstMessage(chat_id, user_id) ==
    {m[1] : m \in Messages(chat_id, user_id) \ {<<>>}}

\* Conversation.query.filter_by(chat_id, user_id).count()
MessageCount(chat_id, user_id) ==
    Cardinality({i \in 1..Len(conversations) :
                 conversations[i].chat_id = chat_id /\ conversations[i].user_id = user_id})

\* start_time.strftime("%Y-%m-%d %H:%M:%S"), the clock counting seconds
StrfTime(t) ==
    "2025-01-01 00:00:" \o (IF t % 60 < 10 THEN "0" ELSE "") \o ToString(t % 60)

\* faulty variant of Preview: the first 30 characters, without the marker
PreviewCut(user_input) ==
    IF Len(user_input) > PreviewLength
    THEN SubSeq(user_input, 1, PreviewLength)
    ELSE user_input

\* user_input[:30] + "..." if len(user_input) > 30 else user_input
Preview(user_input) ==
    IF Len(user_input) > PreviewLength
    THEN SubSeq(user_input, 1, PreviewLength) \o "..."
    ELSE user_input

RECURSIVE HistoryResult(_, _)
\* the loop of get_chat_history over chat_sessions: the results it can build
HistoryResult(chat_sessions, user_id) ==
    IF chat_sessions = <<>> THEN {<<>>}
    ELSE LET session == Head(chat_sessions)
             rest == HistoryResult(Tail(chat_sessions), user_id)
         IN IF FirstMessage(session[1], user_id) = {} THEN rest
            ELSE {<<entry>> \o r :
                    entry \in {<<session[1], session[2], Preview(first_message.user_input),
                                 StrfTime(session[3]),
                                 MessageCount(session[1], user_id)>> :
                               first_message \in FirstMessage(session[1], user_id)},
                    r \in rest}

\* get_chat_history(user_id)
GetChatHistory(user_id, fault) ==
    /\ IF fault = "query"
       THEN call' = Read("get_chat_history", NoneValue, user_id, fault, <<>>)
       ELSE \E chat_sessions \in ChatSessions(user_id) :
            \E result \in HistoryResult(chat_sessions, user_id) :
                call' = Read("get_chat_history", NoneValue, user_id, "none", result)
    /\ UNCHANGED <<characters, conversations, minted, clock, issued, saved, threads>>

-----------------------------------------------------------------------------
(* Character selection: auto_select_character *)

\* c.lower() of a one-character string c
LowerChar(c) ==
    CASE c = "A" -> "a" [] c = "B" -> "b" [] c = "C" -> "c" [] c = "D" -> "d"
      [] c = "E" -> "e" [] c = "F" -> "f" [] c = "G" -> "g" [] c = "H" -> "h"
      [] c = "I" -> "i" [] c = "J" -> "j" [] c = "K" -> "k" [] c = "L" -> "l"
      [] c = "M" -> "m" [] c = "N" -> "n" [] c = "O" -> "o" [] c = "P" -> "p"
      [] c = "Q" -> "q" [] c = "R" -> "r" [] c = "S" -> "s" [] c = "T" -> "t"
      [] c = "U" -> "u" [] c = "V" -> "v" [] c = "W" -> "w" [] c = "X" -> "x"
      [] c = "Y" -> "y" [] c = "Z" -> "z" [] OTHER -> c

\* faulty variant of Lower: the input is used as it was typed
LowerOmitted(text) == text

RECURSIVE Lower(_)
\* user_input.lower()
Lower(text) ==
    IF text = "" THEN ""
    ELSE LowerChar(SubSeq(text, 1, 1)) \o Lower(SubSeq(text, 2, Len(text)))

EducationKeywords ==
    <<"learn", "study", "education", "knowledge", "science", "history", "math",
      "theory", "research">>
EntertainmentKeywords == <<"joke", "funny", "laugh", "entertain", "comedy", "silly">>
AdventureKeywords == <<"adventure", "sea", "pirate", "treasure", "sail", "voyage">>

\* keyword in user_input
Occurs(keyword, text) ==
    \E i \in 1..(Len(text) - Len(keyword) + 1) :
        SubSeq(text, i, i + Len(keyword) - 1) = keyword

\* any(keyword in user_input for keyword in keywords)
AnyKeyword(keywords, text) == \E k \in 1..Len(keywords) : Occurs(keywords[k], text)

\* faulty variant of AutoSelectCharacter: the entertainment keywords are
\* tested first
AutoSelectEntertainmentFirst(user_input) ==
    LET lowered == Lower(user_input)
    IN IF AnyKeyword(EntertainmentKeywords, lowered) THEN "Chuck the Clown"
       ELSE IF AnyKeyword(EducationKeywords, lowered) THEN "Professor Sage"
       ELSE IF AnyKeyword(AdventureKeywords, lowered) THEN "Sarcastic Pirate"
       ELSE NoneValue

\* auto_select_character(user_input)
AutoSelectCharacter(user_input) ==
    LET lowered == Lower(user_input)
    IN IF AnyKeyword(EducationKeywords, lowered) THEN "Professor Sage"
       ELSE IF AnyKeyword(EntertainmentKeywords, lowered) THEN "Chuck the Clown"
       ELSE IF AnyKeyword(AdventureKeywords, lowered) THEN "Sarcastic Pirate"
       ELSE NoneValue

\* auto_select(character_name, user_input): the selection, or the character
\* that was selected when there is none
AutoSelect(character_name, user_input) ==
    /\ call' = [op |-> "auto_select_character", character_name |-> character_name,
                user_input |-> user_input,
                selected_character |-> AutoSelectCharacter(user_input),
                result |-> IF Truthy(AutoSelectCharacter(user_input))
                           THEN AutoSelectCharacter(user_input) ELSE character_name,
                before |-> <<characters, conversations>>]
    /\ UNCHANGED <<characters, conversations, minted, clock, issued, saved, threads>>

-----------------------------------------------------------------------------
(* Transcription.  An audio file is what the recognizer makes of it, a video *)
(* file is the audio track that can or cannot be extracted from it.  The     *)
(* temporary file process_video removes is the one the extraction has just   *)
(* written, so no file is left and none is kept in the state.                *)

UnknownValueError == "UnknownValueError"

\* what str(e) of an sr.RequestError reads
RequestErrors == {"recognition connection failed: timed out",
                  "recognition request failed: Bad Request"}

\* what is said in a recording
Spoken == {"tell me a joke", "teach me history"}

\* outcomes of recognizer.recognize_google(audio_data)
Heard(text) == [outcome |-> "text", text |-> text]
NotUnderstood == [outcome |-> UnknownValueError, text |-> ""]
RequestFailed(e) == [outcome |-> "RequestError", text |-> e]

AudioFiles == {Heard(text) : text \in Spoken} \cup {NotUnderstood}
                  \cup {RequestFailed(e) : e \in RequestErrors}

\* None where an audio file is expected
NoAudio == [outcome |-> NoneValue, text |-> ""]

\* a video whose audio track is audio_file; NoAudio when it cannot be
\* extracted
VideoOf(audio_file) == [video |-> TRUE, audio |-> audio_file]
VideoFiles == {VideoOf(a) : a \in AudioFiles \cup {NoAudio}}

\* None where a video file is expected
NoVideo == [video |-> FALSE, audio |-> NoAudio]

CouldNotUnderstand == "Could not understand audio"
FailedToProcess == "Failed to process video"

\* speech_to_text(audio_file)
SpeechToText(audio_file) ==
    CASE audio_file.outcome = "text" -> audio_file.text
      [] audio_file.outcome = UnknownValueError -> CouldNotUnderstand
      [] OTHER -> "Error: " \o audio_file.text

\* extract_audio_from_video(video_file): the path of the audio written, here
\* the audio itself, or None (NoAudio)
ExtractAudioFromVideo(video_file) == video_file.audio

\* process_video(video_file)
ProcessVideo(video_file) ==
    IF ExtractAudioFromVideo(video_file) # NoAudio
    THEN SpeechToText(ExtractAudioFromVideo(video_file))
    ELSE FailedToProcess

\* the value a transcribe handler puts in the message box
Substituted(transcribed_text, sentinel, text_input) ==
    IF Truthy(transcribed_text) /\ transcribed_text # sentinel
    THEN transcribed_text
    ELSE text_input

Transcribed(op, file, text_input, transcribed_text, result) ==
    [op |-> op, file |-> file, text_input |-> text_input,
     transcribed_text |-> transcribed_text, result |-> result]

\* transcribe_audio(audio_file, text_input), bound to audio_input.change
TranscribeAudio(audio_file, text_input) ==
    /\ call' = IF audio_file = NoAudio
               THEN Transcribed("transcribe_audio", audio_file, text_input,
                                NoneValue, text_input)
               ELSE Transcribed("transcribe_audio", audio_file, text_input,
                                SpeechToText(audio_file),
                                Substituted(SpeechToText(audio_file),
                                            CouldNotUnderstand, text_input))
    /\ UNCHANGED <<characters, conversations, minted, clock, issued, saved, threads>>

\* transcribe_video(video_file, text_input), bound to video_input.change
TranscribeVideo(video_file, text_input) ==
    /\ call' = IF video_file = NoVideo
               THEN Transcribed("transcribe_video", video_file, text_input,
                                NoneValue, text_input)
               ELSE Transcribed("transcribe_video", video_file, text_input,
                                ProcessVideo(video_file),
                                Substituted(ProcessVideo(video_file),
                                            FailedToProcess, text_input))
    /\ UNCHANGED <<characters, conversations, minted, clock, issued, saved, threads>>

-----------------------------------------------------------------------------
(* Calls in threads.  The interface runs its handlers in threads, each with  *)
(* its own database session: a call is then a sequence of steps, and what it *)
(* has added to its session is not in the table before it commits.  The      *)
(* database admits one writer: a session that has flushed rows holds the     *)
(* write lock until it commits or rolls back, and a write by another session *)
(* in that time fails with "database is locked".                             *)

ThreadIds == {1, 2}

\* a thread that runs no call
Resting == [op |-> "", pc |-> "idle"]

IntegrityError == "(sqlite3.IntegrityError) UNIQUE constraint failed: character.name"

\* faulty variant of UniqueViolation: the name column is not declared unique
UniqueViolationNever(rows, pending) == FALSE

\* name = db.Column(db.String(100), nullable=False, unique=True): inserting
\* pending beside rows violates the constraint
UniqueViolation(rows, pending) ==
    \E i \in 1..Len(pending) : CharacterByName(rows, pending[i].name) # <<>>

\* another session holds the write lock
LockedOut(t) ==
    \E u \in ThreadIds \ {t} : threads[u].pc \in {"check", "commit"} /\ threads[u].flushed

RECURSIVE Insert(_, _)
\* the INSERTs of the pending characters, in the order of their db.session.add
Insert(rows, pending) ==
    IF pending = <<>> THEN rows
    ELSE Insert(Append(rows, NewCharacter(rows, Head(pending).name,
                                          Head(pending).description,
                                          Head(pending).prompt_template)),
                Tail(pending))

\* the record of an add_character or add_predefined_characters call that a
\* thread has entered: i is the position of the seeding loop, pending what the
\* session holds, flushed whether the session has written
Running(op, name, description, prompt_template) ==
    [op |-> op, pc |-> "check", name |-> name, description |-> description,
     prompt_template |-> prompt_template, i |-> 1, pending |-> <<>>, flushed |-> FALSE,
     raised |-> FALSE, result |-> "", before |-> characters]

\* the call ends, returning result or raising; the context's teardown removes
\* the session
Finished(th, raised, result) ==
    [th EXCEPT !.pc = "done", !.raised = raised, !.result = result,
               !.pending = <<>>, !.flushed = FALSE]

\* a thread enters add_character or add_predefined_characters
AdminBegin(t) ==
    /\ threads[t].pc = "idle"
    /\ \E th \in {Running("add_character", "Zed", "A terse robot.",
                            "You are Zed, a terse robot."),
                    Running("add_character", "Chuck the Clown", "An impostor.",
                            "You are not Chuck."),
                    Running("add_predefined_characters", "", "", "")} :
            threads' = [threads EXCEPT ![t] = th]
    /\ UNCHANGED <<characters, conversations, minted, clock, issued, saved, call>>

\* Character.query.filter_by(name=...).first() and what follows it up to the
\* next query or the commit; a session that holds pending rows flushes them
\* before it queries, and in the seeding loop that flush is outside any try
AdminCheck(t) ==
    LET th == threads[t]
    IN
    /\ th.pc = "check"
    /\ IF th.op = "add_character"
       THEN IF CharacterByName(characters, th.name) # <<>>
            THEN threads' = [threads EXCEPT ![t] =
                     Finished(th, FALSE, "Character '" \o th.name \o "' already exists!")]
            ELSE threads' = [threads EXCEPT ![t] =
                     [th EXCEPT !.pc = "commit",
                                !.pending = <<[name |-> th.name,
                                               description |-> th.description,
                                               prompt_template |-> th.prompt_template]>>]]
       ELSE IF th.pending # <<>> /\ ~th.flushed /\ LockedOut(t)
            THEN threads' = [threads EXCEPT ![t] = Finished(th, TRUE, DatabaseError)]
            ELSE IF th.pending # <<>> /\ UniqueViolation(characters, th.pending)
            THEN threads' = [threads EXCEPT ![t] = Finished(th, TRUE, IntegrityError)]
            ELSE LET d == PredefinedCharacters[th.i]
                 IN threads' = [threads EXCEPT ![t] =
                        [th EXCEPT !.flushed = th.pending # <<>>,
                                   !.pending = IF CharacterByName(characters, d.name) = <<>>
                                               THEN Append(th.pending, d) ELSE th.pending,
                                   !.i = th.i + 1,
                                   !.pc = IF th.i = Len(PredefinedCharacters)
                                          THEN "commit" ELSE "check"]]
    /\ UNCHANGED <<characters, conversations, minted, clock, issued, saved, call>>

\* db.session.commit() and its handler: the pending rows are inserted, unless
\* the lock, the unique constraint or the database (fault "commit") makes the
\* commit raise, which the handler answers with a rollback
AdminCommit(t, fault) ==
    LET th == threads[t]
        e == IF th.pending = <<>> THEN ""
             ELSE IF ~th.flushed /\ LockedOut(t) THEN DatabaseError
             ELSE IF UniqueViolation(characters, th.pending) THEN IntegrityError
             ELSE IF fault = "commit" THEN DatabaseError
             ELSE ""
    IN
    /\ th.pc = "commit"
    /\ characters' = IF e = "" THEN Insert(characters, th.pending) ELSE characters
    /\ threads' = [threads EXCEPT ![t] =
           Finished(th, FALSE,
                    IF th.op # "add_character" THEN ""
                    ELSE IF e = ""
                    THEN "Character '" \o th.name \o "' added successfully!\nDescription: "
                             \o th.description
                    ELSE "An error occurred while adding the character: " \o e)]
    /\ UNCHANGED <<conversations, minted, clock, issued, saved, call>>

\* the thread's result is taken
AdminEnd(t) ==
    /\ threads[t].pc = "done"
    /\ threads[t].op \in {"add_character", "add_predefined_characters"}
    /\ threads' = [threads EXCEPT ![t] = Resting]
    /\ UNCHANGED <<characters, conversations, minted, clock, issued, saved, call>>

\* the record of a chat_with_character call that a thread has entered
Exchanging(character_name, user_input, user_id, chat_id) ==
    [op |-> "chat_with_character", pc |-> "read", character_name |-> character_name,
     user_input |-> user_input, user_id |-> user_id, chat_id |-> chat_id,
     chat |-> NoneValue, character |-> <<>>, previous_conversations |-> <<>>,
     full_prompt |-> "", response |-> NoResponse, bot_response |-> "",
     timestamp |-> 0, fault |-> "none", raised |-> FALSE,
     result |-> <<NoneValue, NoneValue>>]

\* the call returns
Left(th, how) == [th EXCEPT !.pc = "done", !.raised = how.raised, !.result = how.result]

\* the turns stored or under way
UnderWay == {t \in ThreadIds : threads[t].pc \notin {"idle", "done"}}

\* a thread enters chat_with_character
ChatBegin(t, character_name, user_input, user_id, chat_id) ==
    /\ threads[t].pc = "idle"
    /\ Len(conversations) + Cardinality(UnderWay) < MaxRaceTurns
    /\ threads' = [threads EXCEPT ![t] =
                       Exchanging(character_name, user_input, user_id, chat_id)]
    /\ UNCHANGED <<characters, conversations, minted, clock, issued, saved, call>>

\* lines 124-149: the character, the chat id in effect, the history as the
\* table holds it now, the prompt
ChatRead(t) ==
    LET th == threads[t]
        found == FindCharacter(th.character_name)
    IN
    /\ th.pc = "read"
    /\ IF found = <<>>
       THEN /\ threads' = [threads EXCEPT ![t] = Left(th, NotFound(th.chat_id))]
            /\ UNCHANGED minted
       ELSE LET character == Head(found)
                chat == ChatIdInEffect(th.chat_id)
            IN /\ minted' = IF ~Truthy(th.chat_id) THEN minted + 1 ELSE minted
               /\ minted' <= MaxMinted
               /\ \E previous_conversations
                       \in PreviousConversations(character, th.user_id, chat) :
                     threads' = [threads EXCEPT ![t] =
                         [th EXCEPT !.pc = "post", !.chat = chat,
                                    !.character = found,
                                    !.previous_conversations = previous_conversations,
                                    !.full_prompt =
                                        FullPrompt(character.prompt_template,
                                                   ContextPrompt(previous_conversations),
                                                   th.user_input)]]
    /\ UNCHANGED <<characters, conversations, clock, issued, saved, call>>

\* lines 161-171 and 184-188: the gateway answers
ChatPost(t, response) ==
    LET th == [threads[t] EXCEPT !.response = response]
    IN
    /\ threads[t].pc = "post"
    /\ threads' = [threads EXCEPT ![t] =
           IF response.json = <<>>
           THEN Left(th, Unexpected(JSONDecodeError, th.chat))
           ELSE IF response.status_code # HttpOk
           THEN Left(th, StatusError(response, th.chat))
           ELSE IF ~HasCandidates(response.json[1])
           THEN Left(th, UnexpectedFormat(th.chat))
           ELSE IF FirstText(response.json[1])[1] = "raise"
           THEN Left(th, Unexpected(FirstText(response.json[1])[2], th.chat))
           ELSE [th EXCEPT !.pc = "stamp",
                           !.bot_response = FirstText(response.json[1])[2]]]
    /\ UNCHANGED <<characters, conversations, minted, clock, issued, saved, call>>

\* lines 173-181, first half: the flush of commit() evaluates
\* default=datetime.utcnow for the new row
ChatStamp(t, tick) ==
    /\ threads[t].pc = "stamp"
    /\ clock' = clock + tick
    /\ threads' = [threads EXCEPT ![t] =
                       [threads[t] EXCEPT !.pc = "commit", !.timestamp = clock + tick]]
    /\ UNCHANGED <<characters, conversations, minted, issued, saved, call>>

\* faulty variant of Committed: the session writes back the history as it
\* read it, with the new row, in place of the session's stored turns
CommittedOverHistory(rows, th) ==
    LET kept == SelectSeq(rows, LAMBDA r : ~(r.user_id = th.user_id /\ r.chat_id = th.chat))
                    \o th.previous_conversations
    IN Append(kept, [NewConversation(Head(th.character), th.user_input, th.bot_response,
                                     th.chat, th.user_id, th.timestamp)
                        EXCEPT !.id = Len(kept) + 1])

\* the table after the INSERT and COMMIT of the thread's new row
Committed(rows, th) ==
    Append(rows, NewConversation(Head(th.character), th.user_input, th.bot_response,
                                 th.chat, th.user_id, th.timestamp))

\* lines 173-183, second half, and 190-192: the row is inserted and committed,
\* unless the database (fault "commit") makes the commit raise
ChatCommit(t, fault) ==
    LET th == [threads[t] EXCEPT !.fault = fault]
    IN
    /\ threads[t].pc = "commit"
    /\ IF fault = "commit"
       THEN /\ threads' = [threads EXCEPT ![t] =
                               Left(th, Unexpected(DatabaseError, th.chat))]
            /\ conversations' =
                   Removed(conversations,
                           <<NewConversation(Head(th.character), th.user_input,
                                             th.bot_response, th.chat, th.user_id,
                                             th.timestamp)>>)
       ELSE /\ threads' = [threads EXCEPT ![t] = Left(th, Saved(th.bot_response, th.chat))]
            /\ conversations' = Committed(conversations, th)
    /\ UNCHANGED <<characters, minted, clock, issued, saved, call>>

\* the thread's result is taken
ChatEnd(t) ==
    /\ threads[t].pc = "done"
    /\ threads[t].op = "chat_with_character"
    /\ threads' = [threads EXCEPT ![t] = Resting]
    /\ UNCHANGED <<characters, conversations, minted, clock, issued, saved, call>>

-----------------------------------------------------------------------------
(* The system: the tables as create_all() and the start-up seeding leave      *)
(* them, then any sequence of calls                                           *)

Idle == Administered("", "", "none", "")

Init ==
    /\ characters = SeedFrom(<<>>, 1)
    /\ conversations = <<>>
    /\ minted = 0
    /\ clock = 0
    /\ issued = {}
    /\ saved = <<>>
    /\ call = Idle
    /\ threads = [t \in ThreadIds |-> Resting]

\* Calls are serialised: a call is made when the previous result has been
\* taken, and taking it is what handle_chat's return to the interface does
Taken == call = Idle

Render ==
    /\ ~Taken
    /\ call' = Idle
    /\ UNCHANGED <<characters, conversations, minted, clock, issued, saved, threads>>

\* the stores the model explores: up to MaxTurns turns of any kind, and up to
\* MaxLongTurns turns when they are one session of one user with one character
\* and one input
SingleSession(rows) ==
    \A i, j \in 1..Len(rows) :
        /\ rows[i].user_id = rows[j].user_id
        /\ rows[i].chat_id = rows[j].chat_id
        /\ rows[i].character_id = rows[j].character_id
        /\ rows[i].user_input = rows[j].user_input
        /\ (i < j => rows[i].timestamp < rows[j].timestamp)

Explored(rows) ==
    \/ Len(rows) <= MaxTurns
    \/ Len(rows) <= MaxLongTurns /\ SingleSession(rows)

\* what the environment does to a call: <<fault, response, tick>>; a response
\* is listed with the faults that can follow it, a tick with a completed insert
Environment(responses, faults, ticks) ==
    {<<f, NoResponse, 0>> : f \in faults \cap {"lookup", "history", "post"}}
        \cup {<<"none", r, 0>> : r \in responses \ {Answer}}
        \cup {<<"none", r, t>> : r \in responses \cap {Answer}, t \in ticks}
        \cup {<<f, r, 0>> : f \in faults \cap {"commit"}, r \in responses \cap {Answer}}

\* what the callers of the model pass
CharacterNames == {"Chuck the Clown", "Zed"}
UserInputs == {"tell me a joke"}
UserIds == {1, 2}
GivenChatIds == {NoneValue, "", "s1"}
KnownChatIds == issued \cup {r.chat_id : r \in Range(conversations)}

Chat(names, inputs, users, chats, environment) ==
    /\ Taken
    /\ \E character_name \in names, user_input \in inputs, user_id \in users,
          chat_id \in chats, e \in environment :
            /\ ChatWithCharacter(character_name, user_input, user_id, chat_id,
                                 e[2], e[1], e[3])
            /\ Explored(conversations')

Admin ==
    /\ Taken
    /\ \E fault \in {"none", "commit"} :
        \/ AddCharacter("Zed", "A terse robot.", "You are Zed, a terse robot.", fault)
        \/ AddCharacter("Chuck the Clown", "An impostor.", "You are not Chuck.", fault)
        \/ AddPredefinedCharacters(fault)

\* sessions: every caller, the given and the known session ids, an answering
\* or failing gateway, a clock that advances between inserts
Next ==
    \/ Chat(CharacterNames, UserInputs, UserIds, GivenChatIds \cup KnownChatIds,
            Environment({Answer, ServerError}, {"none"}, {1}))
    \/ Admin
    \/ Render

Spec == Init /\ [][Next]_vars

\* failures: one user, every response and every fault, inserts that may share
\* a timestamp
NextFailures ==
    \/ Chat(CharacterNames, UserInputs, {1}, {NoneValue} \cup KnownChatIds,
            Environment(Responses, Faults, {0, 1}))
    \/ Admin
    \/ Render

SpecFailures == Init /\ [][NextFailures]_vars

\* histories: two users who may share a session, an answering or failing
\* gateway, inserts that may share a timestamp
NextHistories ==
    \/ Chat(CharacterNames, UserInputs, UserIds, {NoneValue} \cup KnownChatIds,
            Environment({Answer, ServerError}, {"none"}, {0, 1}))
    \/ Admin
    \/ Render

SpecHistories == Init /\ [][NextHistories]_vars

\* load_chat_history(user_id_val): the history tab asks for the user's sessions
History(users) ==
    /\ Taken
    /\ \E user_id \in users, fault \in {"none", "query"} :
            GetChatHistory(user_id, fault)

\* load_existing_chat(chat_id, user_id_val): a session is opened again
Load(users, chats) ==
    /\ Taken
    /\ \E user_id \in users, chat_id \in chats, fault \in {"none", "query"} :
            GetChatMessages(chat_id, user_id, fault)

\* a session is read back right after an exchange: the exchange's result has
\* not been replaced by another call's, and it names the session and the user
ReadBack ==
    /\ call.op = "chat_with_character" /\ ~call.raised /\ Truthy(call.result[2])
    /\ \E fault \in {"none", "query"} :
            GetChatMessages(call.result[2], call.user_id, fault)

\* inputs of 30 and 31 characters
LongInputs == {"tell me a joke about a pirate!", "tell me a joke about a pirate!!"}

\* reads: two users who chat with one character and an answering gateway, with
\* short and long inputs and inserts that may
\* share a timestamp, and who read their sessions back
NextReads ==
    \/ Chat({"Chuck the Clown"}, LongInputs, UserIds, {NoneValue} \cup KnownChatIds,
            Environment({Answer}, {"none"}, {0, 1}))
    \/ Admin
    \/ History(UserIds)
    \/ Load(UserIds, {"s1"} \cup KnownChatIds)
    \/ ReadBack
    \/ Render

SpecReads == Init /\ [][NextReads]_vars

\* what the user types into the message box before asking for a selection:
\* two pieces side by side
Fragments ==
    {"", "Tell me a JOKE", "Learn", "pirate", "hello there", "aftermath", "Season",
     " is funny ", "HISTORY", "jo", "ke", "sai", "l", " treasure"}
TypedInputs == {a \o b : a \in Fragments, b \in Fragments}

Select ==
    /\ Taken
    /\ \E character_name \in {"Chuck the Clown", "Professor Sage"},
          user_input \in TypedInputs :
            AutoSelect(character_name, user_input)

\* selection: any input typed, any character selected before
NextSelect ==
    \/ Select
    \/ Admin
    \/ Render

SpecSelect == Init /\ [][NextSelect]_vars

\* transcription: a recording or a video is put in, or taken out, with
\* anything typed in the message box
Audio ==
    /\ Taken
    /\ \E audio_file \in AudioFiles \cup {NoAudio}, text_input \in TypedInputs :
           TranscribeAudio(audio_file, text_input)

Video ==
    /\ Taken
    /\ \E video_file \in VideoFiles \cup {NoVideo}, text_input \in TypedInputs :
           TranscribeVideo(video_file, text_input)

NextTranscribe ==
    \/ Audio
    \/ Video
    \/ Render

SpecTranscribe == Init /\ [][NextTranscribe]_vars

\* races: exchanges of one user with one character in one session, in two
\* threads, step by step, with commits that complete; each thread has its
\* input; the session is read at any time
RaceInputs == <<"tell me a joke", "tell me a joke about a pirate!">>

NextRace ==
    \/ \E t \in ThreadIds : ChatBegin(t, "Chuck the Clown", RaceInputs[t], 1, "s1")
    \/ \E t \in ThreadIds : ChatRead(t)
    \/ \E t \in ThreadIds, response \in {Answer, ServerError} : ChatPost(t, response)
    \/ \E t \in ThreadIds, tick \in {0, 1} : ChatStamp(t, tick)
    \/ \E t \in ThreadIds : ChatCommit(t, "none")
    \/ \E t \in ThreadIds : ChatEnd(t)
    \/ Load({1}, {"s1"})
    \/ Render

SpecRace == Init /\ [][NextRace]_vars

\* personas: the tables as create_all() leaves them, then add_character and
\* add_predefined_characters calls in two threads, step by step
InitPersonas ==
    /\ characters = <<>>
    /\ conversations = <<>>
    /\ minted = 0
    /\ clock = 0
    /\ issued = {}
    /\ saved = <<>>
    /\ call = Idle
    /\ threads = [t \in ThreadIds |-> Resting]

NextPersonas ==
    \/ \E t \in ThreadIds : AdminBegin(t)
    \/ \E t \in ThreadIds : AdminCheck(t)
    \/ \E t \in ThreadIds, fault \in {"none", "commit"} : AdminCommit(t, fault)
    \/ \E t \in ThreadIds : AdminEnd(t)

SpecPersonas == InitPersonas /\ [][NextPersonas]_vars

-----------------------------------------------------------------------------
(* Vocabulary of the properties, stated on the tables and on the call record *)

Chatted == call.op = "chat_with_character"

\* the characters of the store that carry the name the call was given
Named == {c \in Range(characters) : c.name = call.character_name}

\* the chat ids of the turns stored before the call
ChatIdsBefore == {r.chat_id : r \in Range(call.before)}

\* the turns the call added to the store
Added == {r \in Range(conversations) : r \notin Range(call.before)}

\* the store is exactly what it was before the call
StoreUntouched == conversations = call.before

\* the gateway was reached and gave an answer (requests.post returned)
Answered == call.posted /\ call.response # NoResponse

\* the answer is 200 with a first candidate that has content.parts[0].text
WellFormed(response) ==
    /\ response.status_code = 200
    /\ response.json # <<>>
    /\ "candidates" \in DOMAIN response.json[1]
    /\ response.json[1].candidates # <<>>
    /\ "content" \in DOMAIN response.json[1].candidates[1]
    /\ "parts" \in DOMAIN response.json[1].candidates[1].content
    /\ response.json[1].candidates[1].content.parts # <<>>
    /\ "text" \in DOMAIN response.json[1].candidates[1].content.parts[1]

\* the turns stored under (chat_id, user_id) before the call, in the order
\* of their insertion
SessionBefore(chat_id, user_id) ==
    SelectSeq(call.before, LAMBDA r : r.chat_id = chat_id /\ r.user_id = user_id)

\* the timestamps of the turns strictly increase
StrictlyIncreasing(turns) ==
    \A i, j \in 1..Len(turns) : i < j => turns[i].timestamp < turns[j].timestamp

\* a get_chat_messages or get_chat_history call whose queries completed
Loaded == call.op = "get_chat_messages" /\ ~call.raised
Listed == call.op = "get_chat_history" /\ ~call.raised

\* the turns the user of the call had stored before it, and those of a session
TurnsOfUser == {r \in Range(call.before) : r.user_id = call.user_id}
TurnsOfSession(chat_id) == {r \in TurnsOfUser : r.chat_id = chat_id}

\* the earliest timestamp among the user's turns of a session
SessionStart(chat_id) ==
    CHOOSE t \in {r.timestamp : r \in TurnsOfSession(chat_id)} :
        \A r \in TurnsOfSession(chat_id) : t <= r.timestamp

\* a get_chat_messages call, completed, that reads a session back right after
\* an exchange that returned the answer and stored its turn
ReadBackDone ==
    /\ Loaded
    /\ call.previous.op = "chat_with_character"
    /\ call.chat_id = call.previous.result[2] /\ call.user_id = call.previous.user_id
    /\ Len(call.before) = Len(call.previous.before) + 1

\* the turn the exchange before the read stored
Written == call.before[Len(call.before)]

\* an auto_select_character call
Selected == call.op = "auto_select_character"

Capitals == "ABCDEFGHIJKLMNOPQRSTUVWXYZ"
Letters == "abcdefghijklmnopqrstuvwxyz"

\* a and b are the same character, or a is the capital of the letter b
SameLetter(a, b) ==
    a = b \/ \E n \in 1..26 : SubSeq(Capitals, n, n) = a /\ SubSeq(Letters, n, n) = b

\* the lower-case word occurs in text, in whatever case
OccursAnyCase(word, text) ==
    \E i \in 1..(Len(text) - Len(word) + 1) :
        \A k \in 1..Len(word) :
            SameLetter(SubSeq(text, i + k - 1, i + k - 1), SubSeq(word, k, k))

Education(text) ==
    \E w \in {"learn", "study", "education", "knowledge", "science", "history",
               "math", "theory", "research"} : OccursAnyCase(w, text)
Entertainment(text) ==
    \E w \in {"joke", "funny", "laugh", "entertain", "comedy", "silly"} :
        OccursAnyCase(w, text)
Adventure(text) ==
    \E w \in {"adventure", "sea", "pirate", "treasure", "sail", "voyage"} :
        OccursAnyCase(w, text)

\* the exchange of a thread has returned the text of a well-formed answer
Exchanged(th) ==
    /\ th.op = "chat_with_character" /\ th.pc = "done" /\ ~th.raised
    /\ WellFormed(th.response)
    /\ th.result[1] = th.response.json[1].candidates[1].content.parts[1].text

\* the row is the turn of the thread's exchange
TurnOf(r, th) ==
    /\ r.chat_id = th.result[2] /\ r.user_id = th.user_id
    /\ r.user_input = th.user_input /\ r.bot_response = th.result[1]
    /\ r.timestamp = th.timestamp

\* two exchanges in one session have both returned the answer
BothExchanged(t, u) ==
    /\ t # u /\ Exchanged(threads[t]) /\ Exchanged(threads[u])
    /\ threads[t].result[2] = threads[u].result[2]

\* the call was a successful exchange: it returned the text of a well-formed
\* answer
Succeeded ==
    /\ Chatted /\ ~call.raised /\ Answered /\ WellFormed(call.response)
    /\ call.result[1] = call.response.json[1].candidates[1].content.parts[1].text

\* the answer is 200 and parses as JSON, but is not WellFormed
Malformed(response) ==
    /\ response.status_code = 200
    /\ response.json # <<>>
    /\ ~WellFormed(response)

\* needle in text
Contains(text, needle) ==
    \E i \in 1..(Len(text) - Len(needle) + 1) :
        SubSeq(text, i, i + Len(needle) - 1) = needle

\* the response string carries an error marker
ErrorMarked(text) == Contains(text, "error")

-----------------------------------------------------------------------------
(* C1: a call that names a character the store does not hold, and whose      *)
(* lookup query completes, returns "Character not found." (with None),       *)
(* never reaches the gateway and leaves the conversation table as it was,    *)
(* whatever user_id, user_input and chat_id it was given.                    *)
C1_UnknownCharacterNotFound ==
    (Chatted /\ Named = {} /\ call.fault # "lookup") =>
        /\ ~call.raised
        /\ call.result = <<"Character not found.", NoneValue>>
        /\ ~call.posted
        /\ StoreUntouched

C1_Witness ==
    /\ Chatted /\ Named = {}
    /\ call.outcome = "not_found"
    /\ call.chat_id = "s1" /\ call.user_id = 2
    /\ call.before # <<>>

(* C2: when the character exists, the gateway answers 200 with a first       *)
(* candidate that carries a text, and the insert commits, the call appends   *)
(* exactly one turn {character id, user_input, that text, the chat id in     *)
(* effect, user_id} and returns (that text, that chat id); when no chat_id   *)
(* was passed, the turn is the only one under the returned, new chat id.     *)
C2_SuccessfulExchangeAppendsOneTurn ==
    (Chatted /\ Named # {} /\ Answered /\ WellFormed(call.response)
        /\ call.fault = "none") =>
        /\ Len(conversations) = Len(call.before) + 1
        /\ SubSeq(conversations, 1, Len(call.before)) = call.before
        /\ LET turn == conversations[Len(conversations)]
               text == call.response.json[1].candidates[1].content.parts[1].text
           IN /\ \E c \in Named : turn.character_id = c.id
              /\ turn.user_input = call.user_input
              /\ turn.bot_response = text
              /\ turn.user_id = call.user_id
              /\ Truthy(call.chat_id) => turn.chat_id = call.chat_id
              /\ ~call.raised
              /\ call.result = <<text, turn.chat_id>>
              /\ ~Truthy(call.chat_id) =>
                    /\ Truthy(turn.chat_id)
                    /\ turn.chat_id \notin ChatIdsBefore
                    /\ Cardinality({i \in 1..Len(conversations) :
                                    conversations[i].chat_id = call.result[2]}) = 1

C2_Witness ==
    /\ Chatted /\ call.character_name = "Chuck the Clown"
    /\ call.user_input = "tell me a joke" /\ call.user_id = 1
    /\ call.chat_id = NoneValue
    /\ call.outcome = "saved"
    /\ call.before # <<>>
    /\ Cardinality({i \in 1..Len(conversations) :
                    conversations[i].chat_id = call.result[2]}) = 1

(* C3: a call that passes no chat_id (None or ""), names a character of the  *)
(* store and whose lookup query completes returns a non-empty chat id that   *)
(* no earlier such call returned and that no stored turn carries.            *)
C3_FreshChatIdIsNew ==
    (Chatted /\ ~Truthy(call.chat_id) /\ Named # {} /\ call.fault # "lookup") =>
        /\ ~call.raised
        /\ Truthy(call.result[2])
        /\ call.result[2] \notin call.earlier
        /\ call.result[2] \notin ChatIdsBefore

C3_Witness ==
    /\ Chatted /\ call.chat_id = "" /\ Named # {}
    /\ call.earlier # {}
    /\ call.before # <<>>
    /\ Truthy(call.result[2])

(* C4: a chat id is stable.  A call that passes a chat id back and names a   *)
(* character of the store returns that same chat id whatever the gateway or  *)
(* the database does, and every turn it adds is stored under that chat id;   *)
(* so each chat id holds exactly as many turns as there were calls that      *)
(* saved a turn and returned it.                                             *)
C4_ChatIdStable ==
    /\ (Chatted /\ Truthy(call.chat_id) /\ Named # {}) =>
            /\ ~call.raised
            /\ call.result[2] = call.chat_id
            /\ \A r \in Added : r.chat_id = call.chat_id
    /\ \A s \in DOMAIN saved \cup {r.chat_id : r \in Range(conversations)} :
            /\ s \in DOMAIN saved
            /\ saved[s] = Cardinality({i \in 1..Len(conversations) :
                                       conversations[i].chat_id = s})

C4_Witness ==
    /\ Chatted /\ call.chat_id \in call.earlier /\ Named # {}
    /\ call.outcome = "saved"
    /\ saved[call.chat_id] = 2

(* C5: when a chat_id is passed, the context of the prompt is made of the    *)
(* turns stored under (user_id, chat_id): every one of them, however many,   *)
(* once each, no turn of another user or session, oldest first by timestamp. *)
C5_SessionContextIsWholeSession ==
    (Chatted /\ Truthy(call.chat_id) /\ call.full_prompt # "") =>
        LET previous == call.previous_conversations
            session == {r \in Range(call.before) :
                        r.user_id = call.user_id /\ r.chat_id = call.chat_id}
        IN /\ Range(previous) = session
           /\ Len(previous) = Cardinality(session)
           /\ \A i, j \in 1..Len(previous) :
                  i < j => previous[i].timestamp <= previous[j].timestamp
           /\ \E c \in Named :
                  call.full_prompt =
                      FullPrompt(c.prompt_template, ContextPrompt(previous),
                                 call.user_input)

C5_Witness ==
    /\ Chatted /\ Truthy(call.chat_id) /\ call.full_prompt # ""
    /\ call.previous_conversations # <<>>
    /\ \E r \in Range(call.before) :
           r.chat_id = call.chat_id /\ r.user_id # call.user_id

(* C6: when no chat_id is passed, the context of the prompt is made of the   *)
(* most recent turns of the user with the character, at most RecentLimit of  *)
(* them, oldest first.  The code mints the chat id before it chooses the     *)
(* query, so the recent-turns query is never run and the context is empty.   *)
C6_RecentContextWithoutChatId ==
    (Chatted /\ ~Truthy(call.chat_id) /\ call.full_prompt # "") =>
        LET previous == call.previous_conversations
            recent == {r \in Range(call.before) :
                       /\ r.user_id = call.user_id
                       /\ \E c \in Named : r.character_id = c.id}
            kept == {r \in recent :
                     Cardinality({q \in recent : q.timestamp > r.timestamp})
                         < RecentLimit}
        IN /\ Range(previous) = kept
           /\ Len(previous) = Cardinality(kept)
           /\ \A i, j \in 1..Len(previous) :
                  i < j => previous[i].timestamp <= previous[j].timestamp

(* C7: when the gateway answers with a status other than 200, the call       *)
(* returns a string with an error marker, paired with the chat id that was   *)
(* passed in (the newly minted one when none was passed), and the            *)
(* conversation table is as it was.                                          *)
C7_StatusErrorKeepsSession ==
    (Chatted /\ Answered /\ call.response.status_code # 200) =>
        /\ ~call.raised
        /\ ErrorMarked(call.result[1])
        /\ Truthy(call.chat_id) => call.result[2] = call.chat_id
        /\ ~Truthy(call.chat_id) =>
               Truthy(call.result[2]) /\ call.result[2] \notin call.earlier
        /\ StoreUntouched

C7_Witness ==
    /\ Chatted /\ Answered /\ call.response.status_code = 500
    /\ call.chat_id \in call.earlier
    /\ call.result[2] = call.chat_id
    /\ call.before # <<>>

(* C8: when the gateway answers 200 with a JSON body that has no             *)
(* 'candidates', an empty 'candidates', or a first candidate without         *)
(* content.parts[0].text, the call returns a string with an error marker     *)
(* and the chat id in effect, raises nothing and stores no turn.             *)
C8_MalformedAnswerIsAnError ==
    (Chatted /\ Answered /\ Malformed(call.response)) =>
        /\ ~call.raised
        /\ ErrorMarked(call.result[1])
        /\ Truthy(call.chat_id) => call.result[2] = call.chat_id
        /\ ~Truthy(call.chat_id) =>
               Truthy(call.result[2]) /\ call.result[2] \notin call.earlier
        /\ StoreUntouched

C8_Witness ==
    /\ Chatted /\ Answered /\ call.response = NoText
    /\ call.outcome = "unexpected"
    /\ call.chat_id \in call.earlier
    /\ call.before # <<>>

(* C9: no exception leaves chat_with_character: whatever it is given and     *)
(* whichever step fails (character lookup, history query, gateway request,   *)
(* payload parsing, insert), the call ends and returns a pair (response      *)
(* string, chat id).                                                         *)
C9_NothingEscapes ==
    Chatted =>
        /\ ~call.raised
        /\ call.outcome \in {"not_found", "saved", "format_error",
                             "status_error", "unexpected"}
        /\ Len(call.result) = 2
        /\ call.result[1] \in STRING /\ call.result[1] # NoneValue
        /\ call.result[2] \in STRING

C9_Witness ==
    /\ Chatted /\ call.fault = "commit"
    /\ call.outcome = "unexpected"
    /\ ErrorMarked(call.result[1])
    /\ StoreUntouched

(* C10: whenever a call that was passed a chat_id fails, in whatever way,    *)
(* the second field of its result is that chat_id.  The character-not-found  *)
(* return carries None instead.                                              *)
C10_FailureKeepsChatId ==
    (Chatted /\ Truthy(call.chat_id) /\ call.outcome # "saved") =>
        call.result[2] = call.chat_id

(* C11: in every reachable state all turns stored under one chat id carry    *)
(* one user_id: a call of user B that passes a chat id under which turns of  *)
(* user A are stored adds no turn of B under it.  The code filters the       *)
(* history by (user_id, chat_id) but stores the new turn under whatever chat *)
(* id it was passed, with no check of who owns it.                           *)
C11_SessionHasOneUser ==
    \A r, q \in Range(conversations) : r.chat_id = q.chat_id => r.user_id = q.user_id

(* C12: the conversation table is append-only.  Every step of the system     *)
(* (an exchange, get_chat_history, get_chat_messages, add_character,         *)
(* add_predefined_characters) leaves every stored turn in place and as it    *)
(* was; the table grows by exactly one turn in a step that is a successful   *)
(* exchange (made alone or in a thread) and by none in any other step.       *)
C12_AppendOnly ==
    [][/\ Len(conversations') >= Len(conversations)
       /\ SubSeq(conversations', 1, Len(conversations)) = conversations
       /\ Len(conversations') - Len(conversations) =
              IF \/ call' # call /\ Succeeded'
                 \/ \E t \in ThreadIds :
                        threads[t].pc = "commit" /\ Exchanged(threads'[t])
              THEN 1 ELSE 0]_vars

C12_Witness ==
    /\ call.op = "get_chat_history" /\ ~call.raised
    /\ Len(call.result) = 2
    /\ Len(conversations) = 2 /\ conversations = call.before
    /\ \E c \in Range(characters) : c.name = "Zed"

(* C13: when the n turns stored under (chat_id, user_id) have n different    *)
(* timestamps, T1..Tn being the turns by increasing timestamp, a             *)
(* get_chat_messages call for that chat_id and user_id whose query completes *)
(* returns n pairs, the i-th being (user_input, bot_response) of Ti.         *)
C13_MessagesInTimestampOrder ==
    Loaded =>
        LET session == Range(SessionBefore(call.chat_id, call.user_id))
        IN (\A r, q \in session : r # q => r.timestamp # q.timestamp) =>
              /\ Len(call.result) = Cardinality(session)
              /\ \A r \in session :
                     call.result[1 + Cardinality({q \in session :
                                                  q.timestamp < r.timestamp})]
                         = <<r.user_input, r.bot_response>>

C13_Witness ==
    /\ Loaded
    /\ StrictlyIncreasing(SessionBefore(call.chat_id, call.user_id))
    /\ Len(call.result) = 2 /\ call.result[1] # call.result[2]
    /\ \E r \in Range(call.before) : r.chat_id = call.chat_id /\ r.user_id = call.user_id

(* C14: a get_chat_history call whose queries complete returns one entry    *)
(* for each distinct chat id among the user's turns and no other entry, the  *)
(* entries ordered by the earliest timestamp of their session, latest first, *)
(* and each entry's message count is the number of turns stored under its    *)
(* chat id and the user_id.                                                  *)
C14_OneEntryPerSession ==
    Listed =>
        /\ {call.result[i][1] : i \in 1..Len(call.result)}
               = {r.chat_id : r \in TurnsOfUser}
        /\ Len(call.result) = Cardinality({r.chat_id : r \in TurnsOfUser})
        /\ \A i, j \in 1..Len(call.result) :
               i < j => SessionStart(call.result[i][1]) >= SessionStart(call.result[j][1])
        /\ \A i \in 1..Len(call.result) :
               call.result[i][5] = Cardinality(TurnsOfSession(call.result[i][1]))

C14_Witness ==
    /\ Listed
    /\ Len(call.result) = 2
    /\ SessionStart(call.result[1][1]) > SessionStart(call.result[2][1])
    /\ call.result[1][5] = 1

(* C15: in a get_chat_history result the preview of an entry is the          *)
(* user_input of a turn of the session with the lowest timestamp: that       *)
(* input itself when it has at most 30 characters, and otherwise its first   *)
(* 30 characters followed by "...".                                          *)
C15_PreviewOfFirstTurn ==
    Listed =>
        \A i \in 1..Len(call.result) :
            \E first \in TurnsOfSession(call.result[i][1]) :
                /\ first.timestamp = SessionStart(call.result[i][1])
                /\ Len(first.user_input) <= 30 => call.result[i][3] = first.user_input
                /\ Len(first.user_input) > 30 =>
                       call.result[i][3] = SubSeq(first.user_input, 1, 30) \o "..."

C15_Witness ==
    /\ Listed
    /\ Len(call.result) = 2
    /\ call.result[1][3] = "tell me a joke about a pirate!..."
    /\ call.result[2][3] = "tell me a joke about a pirate!"
    /\ \E r \in TurnsOfSession(call.result[2][1]) : Len(r.user_input) = 30

C17_NamesStayUnique ==
    /\ [](\A i, j \in 1..Len(characters) :
              characters[i].name = characters[j].name => i = j)
    /\ [](\A t \in ThreadIds :
              (/\ threads[t].op = "add_character" /\ threads[t].pc = "done"
               /\ \E c \in Range(threads[t].before) : c.name = threads[t].name)
                  => /\ ~threads[t].raised
                     /\ threads[t].result
                            = "Character '" \o threads[t].name \o "' already exists!")
    /\ [][/\ Len(characters') >= Len(characters)
          /\ SubSeq(characters', 1, Len(characters)) = characters]_vars

C17_Witness ==
    /\ \E t \in ThreadIds :
           /\ threads[t].op = "add_character" /\ threads[t].pc = "done"
           /\ threads[t].name = "Chuck the Clown"
           /\ threads[t].result
                  = "An error occurred while adding the character: " \o IntegrityError
    /\ \E u \in ThreadIds :
           /\ threads[u].op = "add_predefined_characters" /\ threads[u].pc = "done"
    /\ Len(characters) = 3

(* C18: auto_select_character is a function of its input alone and changes  *)
(* nothing.  With the input lower-cased, it returns "Professor Sage" when an *)
(* education keyword occurs in it, else "Chuck the Clown" when an            *)
(* entertainment keyword occurs, else "Sarcastic Pirate" when an adventure   *)
(* keyword occurs, else None; an input with keywords of several sets gets    *)
(* the first of these.                                                       *)
C18_SelectionByPriority ==
    Selected =>
        /\ call.selected_character =
               IF Education(call.user_input) THEN "Professor Sage"
               ELSE IF Entertainment(call.user_input) THEN "Chuck the Clown"
               ELSE IF Adventure(call.user_input) THEN "Sarcastic Pirate"
               ELSE NoneValue
        /\ call.before = <<characters, conversations>>

C18_Witness ==
    /\ Selected
    /\ call.user_input = "Tell me a JOKEHISTORY"
    /\ call.selected_character = "Professor Sage"

(* C19: two exchanges run in threads under one chat id, each reading the     *)
(* history, calling the gateway and writing its turn, with no lock.  In      *)
(* every interleaving the write of an exchange whose gateway succeeded       *)
(* appends its turn and leaves every stored turn as it was; so when both     *)
(* have returned, both turns are stored under the chat id, as two rows, and  *)
(* a read of the session returns both, in an order of non-decreasing         *)
(* timestamps.                                                               *)
C19_BothTurnsPersisted ==
    /\ [](\A t, u \in ThreadIds :
              BothExchanged(t, u) =>
                  /\ \E i, j \in 1..Len(conversations) :
                         /\ i # j
                         /\ TurnOf(conversations[i], threads[t])
                         /\ TurnOf(conversations[j], threads[u])
                  /\ \A messages \in Messages(threads[t].result[2], threads[t].user_id) :
                         /\ \E a, b \in 1..Len(messages) :
                                /\ a # b
                                /\ TurnOf(messages[a], threads[t])
                                /\ TurnOf(messages[b], threads[u])
                         /\ \A a, b \in 1..Len(messages) :
                                a < b => messages[a].timestamp <= messages[b].timestamp)
    /\ [][/\ Len(conversations') >= Len(conversations)
          /\ SubSeq(conversations', 1, Len(conversations)) = conversations
          /\ \A t \in ThreadIds :
                 (threads[t].pc = "commit" /\ Exchanged(threads'[t])) =>
                     /\ Len(conversations') = Len(conversations) + 1
                     /\ TurnOf(conversations'[Len(conversations')], threads'[t])]_vars

C19_Witness ==
    /\ BothExchanged(1, 2)
    /\ \A r \in Range(threads[1].previous_conversations) : ~TurnOf(r, threads[2])
    /\ \A r \in Range(threads[2].previous_conversations) : ~TurnOf(r, threads[1])
    /\ Len(conversations) = 3
    /\ conversations[2].timestamp > conversations[3].timestamp

(* C20: when the insert of the turn fails (add or commit raises), no row of  *)
(* that exchange is in the conversation table afterwards, whole or in part:  *)
(* the table is exactly what it was before the call; the write is not tried  *)
(* again; and the call raises nothing and returns a string with an error     *)
(* marker, which is not the answer of the gateway, with the chat id in       *)
(* effect.                                                                   *)
C20_FailedWriteStoresNothing ==
    (Chatted /\ call.fault = "commit") =>
        /\ StoreUntouched
        /\ ~call.raised
        /\ call.result[1] \in STRING /\ ErrorMarked(call.result[1])
        /\ WellFormed(call.response)
        /\ call.result[1] # call.response.json[1].candidates[1].content.parts[1].text
        /\ Truthy(call.result[2])
        /\ Truthy(call.chat_id) => call.result[2] = call.chat_id

C20_Witness ==
    /\ Chatted /\ call.fault = "commit"
    /\ call.chat_id \in call.earlier
    /\ \E r \in Range(call.before) : r.chat_id = call.chat_id
    /\ call.result[1] = "An unexpected error occurred: " \o DatabaseError

\* a transcribe handler has run on a file
TranscribedFile ==
    call.op \in {"transcribe_audio", "transcribe_video"} /\ call.file \notin {NoAudio, NoVideo}

\* the strings by which speech_to_text and process_video report a failure
Sentinel(text) ==
    \/ text = "Could not understand audio"
    \/ text = "Failed to process video"
    \/ Len(text) >= 7 /\ SubSeq(text, 1, 7) = "Error: "

(* C21: the transcribed text takes the place of the typed text only when the *)
(* transcription succeeded: whenever speech_to_text or process_video returns *)
(* one of its failure strings ("Could not understand audio", "Error: ..." on *)
(* a request error, "Failed to process video"), transcribe_audio and         *)
(* transcribe_video return the text input as it was.                         *)
C21_SentinelKeepsTypedText ==
    (TranscribedFile /\ Sentinel(call.transcribed_text)) =>
        call.result = call.text_input

\* a turn of another user is stored under the chat id, before the call
SharedWithAnother(chat_id) ==
    \E q \in Range(call.before) : q.chat_id = chat_id /\ q.user_id # call.user_id

(* C22: reads do not leak across users.  For every user and chat id, the     *)
(* context a chat_with_character call assembles holds only turns of that     *)
(* user; a get_chat_messages result has one pair for each turn of that user  *)
(* in the session and no other; and every entry of a get_chat_history result *)
(* is of a session where the user has a turn, with the character, the        *)
(* preview and the date of the user's first turn there, and the count of the *)
(* user's turns there.  This holds also when turns of another user are       *)
(* stored under the same chat id.                                            *)
C22_ReadsOnlyOwnTurns ==
    /\ Chatted =>
           \A r \in Range(call.previous_conversations) :
               r \in TurnsOfUser /\ (Truthy(call.chat_id) => r.chat_id = call.chat_id)
    /\ Loaded =>
           /\ Len(call.result) = Cardinality(TurnsOfSession(call.chat_id))
           /\ \A i \in 1..Len(call.result) :
                  \E r \in TurnsOfSession(call.chat_id) :
                      call.result[i] = <<r.user_input, r.bot_response>>
    /\ Listed =>
           \A i \in 1..Len(call.result) :
               LET entry == call.result[i]
               IN /\ TurnsOfSession(entry[1]) # {}
                  /\ \E r \in TurnsOfSession(entry[1]) :
                         /\ r.timestamp = SessionStart(entry[1])
                         /\ \E c \in Range(characters) :
                                c.id = r.character_id /\ c.name = entry[2]
                  /\ \E r \in TurnsOfSession(entry[1]) :
                         /\ r.timestamp = SessionStart(entry[1])
                         /\ entry[3] = Preview(r.user_input)
                  /\ entry[4] = StrfTime(SessionStart(entry[1]))
                  /\ entry[5] = Cardinality(TurnsOfSession(entry[1]))

\* the history of a user whose session holds an earlier turn of another user,
\* with another input
C22_Witness ==
    /\ Listed
    /\ Len(call.result) = 1
    /\ \E r \in TurnsOfSession(call.result[1][1]), q \in Range(call.before) :
           /\ q.chat_id = r.chat_id /\ q.user_id # r.user_id
           /\ q.timestamp < r.timestamp
           /\ q.user_input # r.user_input

\* the messages of a user's session that holds a turn of another user too
C22_WitnessMessages ==
    /\ Loaded
    /\ Len(call.result) = 1
    /\ SharedWithAnother(call.chat_id)

\* an exchange under a chat id where only another user has turns
C22_WitnessContext ==
    /\ Chatted /\ Succeeded
    /\ Truthy(call.chat_id)
    /\ SharedWithAnother(call.chat_id)
    /\ call.previous_conversations = <<>>

====
